---- MODULE Spec2Model ----
(***************************************************************************)
(* RpcMessageSubject (packages/rpc/src/client/message-subject.ts): the     *)
(* client-side handle that correlates one outstanding RPC call with its    *)
(* replies.  One handle is modelled.  Every public method is one action;   *)
(* the callbacks a method runs synchronously (the reply listener, the      *)
(* rejection callback, release) are part of that action.                   *)
(***************************************************************************)
EXTENDS Integers, Sequences, FiniteSets, TLC

\* ------------------------------------------------------------------ bounds
MaxOps == 4         \* method calls made on the handle in one run
MaxAcc == 2         \* accessor invocations (promises) in one run

\* ------------------------------------------------------------------ values
Undefined == [k |-> "undefined"]

RpcTypesAck == "Ack"
RpcTypesError == "Error"
Types == {RpcTypesAck, RpcTypesError, "A", "B"}

\* A reply: its type tag and whether its body parses against a schema.
Messages ==
    {[type |-> t, body |-> "ok"] : t \in Types} \cup {[type |-> "A", body |-> "bad"]}

\* The type an accessor may be asked to wait for.
WaitTypes == {"A", RpcTypesError}

isError(m) == m.type = RpcTypesError
getError(m) == [k |-> "carried", of |-> m]
parseOk(m) == m.body = "ok"
parseBody(m) == [k |-> "parsed", of |-> m]
ParseError(m) == [k |-> "ParseError", of |-> m]

UnexpectedMessageType(expected, actual) ==
    [k |-> "UnexpectedMessageType", expected |-> expected, actual |-> actual]

ConnectionClosed == [k |-> "RpcError", message |-> "Connection closed"]
CustomError == [k |-> "CustomError"]
DisconnectArgs == {Undefined, CustomError}

\* Listeners that can sit in this.onReplyCallback.
catchOnReplyCallback == [k |-> "catch"]          \* buffers into uncatchedNext
noop == [k |-> "noop"]
UserListener(f) == [k |-> "user", id |-> f]
AccListener(i) == [k |-> "accessor", id |-> i]   \* the closure of accessor call i
UserListeners == {"f", "g"}

\* Callbacks that can sit in this.rejected.
UserRejection(r) == [k |-> "user", id |-> r]
RejectOf(i) == [k |-> "reject", id |-> i]        \* reject of accessor call i
UserRejections == {"r"}

\* ------------------------------------------------------------------ state
VARIABLES
    uncatchedNext,      \* the buffered reply, or Undefined
    onReplyCallback,    \* the installed reply listener
    rejected,           \* the rejection callback, or Undefined
    released,           \* how often this.release() has been invoked
    acc,                \* one promise per accessor invocation, in call order
    hist,               \* how many calls of each sort were made so far
    lastCall            \* the last method call: what it ran, and the state before

vars == <<uncatchedNext, onReplyCallback, rejected, released, acc, hist, lastCall>>

\* The handle together with the events of the method call in progress.
World ==
    [uncatchedNext |-> uncatchedNext, onReplyCallback |-> onReplyCallback,
     rejected |-> rejected, released |-> released, acc |-> acc,
     calls |-> <<>>, rejs |-> <<>>, rel |-> 0, sent |-> 0, threw |-> Undefined]

Pre ==
    [uncatchedNext |-> uncatchedNext, onReplyCallback |-> onReplyCallback,
     rejected |-> rejected, released |-> released, acc |-> acc, hist |-> hist]

\* nexts, discs: calls of next and disconnect; installs: calls of onReply, the
\* accessors' included; regs: calls of onRejected; accs: accessor calls.
NoHist == [nexts |-> 0, discs |-> 0, installs |-> 0, regs |-> 0, accs |-> 0, ops |-> 0]

NoCall ==
    [op |-> "new", arg |-> Undefined, calls |-> <<>>, rejs |-> <<>>, rel |-> 0,
     sent |-> 0, threw |-> Undefined,
     pre |-> [uncatchedNext |-> Undefined, onReplyCallback |-> catchOnReplyCallback,
              rejected |-> Undefined, released |-> 0, acc |-> <<>>, hist |-> NoHist]]

Init ==
    /\ uncatchedNext = Undefined
    /\ onReplyCallback = catchOnReplyCallback
    /\ rejected = Undefined
    /\ released = 0
    /\ acc = <<>>
    /\ hist = NoHist
    /\ lastCall = NoCall

\* ------------------------------------------------------- callbacks, settle
release(w) == [w EXCEPT !.released = @ + 1, !.rel = @ + 1]

\* A promise takes the first settlement only; every invocation is counted.
settle(w, i, how, v) ==
    [w EXCEPT !.acc[i] =
        IF @.state = "pending"
        THEN [@ EXCEPT !.state = how, !.value = v, !.settles = @ + 1]
        ELSE [@ EXCEPT !.settles = @ + 1]]

resolve(w, i, v) == settle(w, i, "resolved", v)
reject(w, i, e) == settle(w, i, "rejected", e)

\* ------------------------------------------------------ listener closures
\* ackThenClose without its test for an error-tagged reply.
ackThenCloseListener_noErrorBranch(w, i, m) ==
    LET w1 == [w EXCEPT !.onReplyCallback = catchOnReplyCallback]
        w2 == release(w1)
        w3 == [w2 EXCEPT !.rejected = Undefined]
    IN  IF m.type = RpcTypesAck THEN resolve(w3, i, Undefined)
        ELSE reject(w3, i, UnexpectedMessageType(RpcTypesAck, m.type))

\* ackThenClose releasing only when the reply is the Ack.
ackThenCloseListener_releasesOnAck(w, i, m) ==
    LET w1 == [w EXCEPT !.onReplyCallback = catchOnReplyCallback]
        w3 == [w1 EXCEPT !.rejected = Undefined]
    IN  IF m.type = RpcTypesAck THEN resolve(release(w3), i, Undefined)
        ELSE IF isError(m) THEN reject(w3, i, getError(m))
        ELSE reject(w3, i, UnexpectedMessageType(RpcTypesAck, m.type))

ackThenCloseListener(w, i, m) ==
    LET w1 == [w EXCEPT !.onReplyCallback = catchOnReplyCallback]
        w2 == release(w1)
        w3 == [w2 EXCEPT !.rejected = Undefined]
    IN  IF m.type = RpcTypesAck THEN resolve(w3, i, Undefined)
        ELSE IF isError(m) THEN reject(w3, i, getError(m))
        ELSE reject(w3, i, UnexpectedMessageType(RpcTypesAck, m.type))

\* waitNextMessage whose listener stays installed after it resolved.
waitNextMessageListener_staysInstalled(w, i, m) == resolve(w, i, m)

waitNextMessageListener(w, i, m) ==
    LET w1 == [w EXCEPT !.onReplyCallback = catchOnReplyCallback]
    IN  resolve(w1, i, m)

\* waitNext releasing on every reply, as firstThenClose does.
waitNextListener_releasesFirst(w, i, m) ==
    LET w1 == release([w EXCEPT !.onReplyCallback = catchOnReplyCallback])
        type == w.acc[i].type
        schema == w.acc[i].schema
    IN  IF m.type = type
        THEN IF schema
             THEN IF parseOk(m) THEN resolve(w1, i, parseBody(m))
                  ELSE [w1 EXCEPT !.threw = ParseError(m)]
             ELSE resolve(w1, i, Undefined)
        ELSE IF isError(m) THEN reject(w1, i, getError(m))
        ELSE reject(w1, i, UnexpectedMessageType(type, m.type))

waitNextListener(w, i, m) ==
    LET w1 == [w EXCEPT !.onReplyCallback = catchOnReplyCallback]
        type == w.acc[i].type
        schema == w.acc[i].schema
    IN  IF m.type = type
        THEN IF schema
             THEN IF parseOk(m) THEN resolve(w1, i, parseBody(m))
                  ELSE [w1 EXCEPT !.threw = ParseError(m)]
             ELSE resolve(w1, i, Undefined)
        ELSE IF isError(m) THEN reject(release(w1), i, getError(m))
        ELSE reject(w1, i, UnexpectedMessageType(type, m.type))

\* firstThenClose releasing only on a reply of its type or an error-tagged reply.
firstThenCloseListener_releasesOnMatch(w, i, m) ==
    LET w1 == [w EXCEPT !.onReplyCallback = catchOnReplyCallback]
        w2 == release(w1)
        type == w.acc[i].type
        schema == w.acc[i].schema
    IN  IF m.type = type
        THEN IF schema
             THEN IF parseOk(m) THEN resolve(w2, i, parseBody(m))
                  ELSE reject(w2, i, ParseError(m))
             ELSE resolve(w2, i, m)
        ELSE IF isError(m) THEN reject(w2, i, getError(m))
        ELSE reject(w1, i, UnexpectedMessageType(type, m.type))

\* firstThenClose without the try/catch around parseBody.
firstThenCloseListener_noCatch(w, i, m) ==
    LET w1 == [w EXCEPT !.onReplyCallback = catchOnReplyCallback]
        w2 == release(w1)
        type == w.acc[i].type
        schema == w.acc[i].schema
    IN  IF m.type = type
        THEN IF schema
             THEN IF parseOk(m) THEN resolve(w2, i, parseBody(m))
                  ELSE [w2 EXCEPT !.threw = ParseError(m)]
             ELSE resolve(w2, i, m)
        ELSE IF isError(m) THEN reject(release(w2), i, getError(m))
        ELSE reject(w2, i, UnexpectedMessageType(type, m.type))

firstThenCloseListener(w, i, m) ==
    LET w1 == [w EXCEPT !.onReplyCallback = catchOnReplyCallback]
        w2 == release(w1)
        type == w.acc[i].type
        schema == w.acc[i].schema
    IN  IF m.type = type
        THEN IF schema
             THEN IF parseOk(m) THEN resolve(w2, i, parseBody(m))
                  ELSE reject(w2, i, ParseError(m))
             ELSE resolve(w2, i, m)
        ELSE IF isError(m) THEN reject(release(w2), i, getError(m))
        ELSE reject(w2, i, UnexpectedMessageType(type, m.type))

\* this.onReplyCallback(next, this), for whichever listener l is installed.
\* The buffering listener keeping the oldest reply instead of the newest.
invokeListener_keepsOldest(w, l, m) ==
    LET w0 == [w EXCEPT !.calls = Append(@, [l |-> l, m |-> m])]
    IN  CASE l.k = "catch" ->
                IF w.uncatchedNext = Undefined THEN [w0 EXCEPT !.uncatchedNext = m] ELSE w0
          [] l.k = "noop" -> w0
          [] l.k = "user" -> w0
          [] l.k = "accessor" ->
                CASE w.acc[l.id].kind = "ackThenClose" -> ackThenCloseListener(w0, l.id, m)
                  [] w.acc[l.id].kind = "waitNextMessage" -> waitNextMessageListener(w0, l.id, m)
                  [] w.acc[l.id].kind = "waitNext" -> waitNextListener(w0, l.id, m)
                  [] w.acc[l.id].kind = "firstThenClose" -> firstThenCloseListener(w0, l.id, m)

invokeListener(w, l, m) ==
    LET w0 == [w EXCEPT !.calls = Append(@, [l |-> l, m |-> m])]
    IN  CASE l.k = "catch" -> [w0 EXCEPT !.uncatchedNext = m]
          [] l.k = "noop" -> w0
          [] l.k = "user" -> w0
          [] l.k = "accessor" ->
                CASE w.acc[l.id].kind = "ackThenClose" -> ackThenCloseListener(w0, l.id, m)
                  [] w.acc[l.id].kind = "waitNextMessage" -> waitNextMessageListener(w0, l.id, m)
                  [] w.acc[l.id].kind = "waitNext" -> waitNextListener(w0, l.id, m)
                  [] w.acc[l.id].kind = "firstThenClose" -> firstThenCloseListener(w0, l.id, m)

\* this.rejected(error)
invokeRejected(w, cb, e) ==
    LET w0 == [w EXCEPT !.rejs = Append(@, [cb |-> cb, err |-> e])]
    IN  IF cb.k = "reject" THEN reject(w0, cb.id, e) ELSE w0

\* ---------------------------------------------------------- method bodies
\* disconnect that leaves this.rejected registered.
disconnectBody_keepsRejected(w, error) ==
    LET w1 == IF w.rejected # Undefined
              THEN invokeRejected(w, w.rejected,
                        IF error # Undefined THEN error ELSE ConnectionClosed)
              ELSE w
        w2 == [w1 EXCEPT !.onReplyCallback = noop]
    IN  release(w2)

\* disconnect restoring the buffering listener instead of installing noop.
disconnectBody_restoresBuffering(w, error) ==
    LET w1 == IF w.rejected # Undefined
              THEN [invokeRejected(w, w.rejected,
                        IF error # Undefined THEN error ELSE ConnectionClosed)
                    EXCEPT !.rejected = Undefined]
              ELSE w
        w2 == [w1 EXCEPT !.onReplyCallback = catchOnReplyCallback]
    IN  release(w2)

\* disconnect clearing this.rejected without invoking it.
disconnectBody_dropsRejected(w, error) ==
    LET w1 == [w EXCEPT !.rejected = Undefined]
        w2 == [w1 EXCEPT !.onReplyCallback = noop]
    IN  release(w2)

disconnectBody(w, error) ==
    LET w1 == IF w.rejected # Undefined
              THEN [invokeRejected(w, w.rejected,
                        IF error # Undefined THEN error ELSE ConnectionClosed)
                    EXCEPT !.rejected = Undefined]
              ELSE w
        w2 == [w1 EXCEPT !.onReplyCallback = noop]
    IN  release(w2)

nextBody(w, m) == invokeListener(w, w.onReplyCallback, m)

onRejectedBody(w, callback) == [w EXCEPT !.rejected = callback]

\* A listener that throws leaves onReply before the buffer is cleared.
\* onReply that keeps a listener already installed by the user or an accessor.
onReplyBody_keepsInstalled(w, callback) ==
    LET w1 == IF w.onReplyCallback.k \in {"user", "accessor"} THEN w
              ELSE [w EXCEPT !.onReplyCallback = callback]
    IN  IF w.uncatchedNext # Undefined
        THEN LET w2 == invokeListener(w1, w1.onReplyCallback, w.uncatchedNext)
             IN  IF w2.threw # Undefined THEN w2
                 ELSE [w2 EXCEPT !.uncatchedNext = Undefined]
        ELSE w1

\* onReply that does not clear the buffer after the replay.
onReplyBody_keepsBuffer(w, callback) ==
    LET w1 == [w EXCEPT !.onReplyCallback = callback]
    IN  IF w.uncatchedNext # Undefined
        THEN invokeListener(w1, callback, w.uncatchedNext)
        ELSE w1

onReplyBody(w, callback) ==
    LET w1 == [w EXCEPT !.onReplyCallback = callback]
    IN  IF w.uncatchedNext # Undefined
        THEN LET w2 == invokeListener(w1, callback, w.uncatchedNext)
             IN  IF w2.threw # Undefined THEN w2
                 ELSE [w2 EXCEPT !.uncatchedNext = Undefined]
        ELSE w1

sendBody(w) == [w EXCEPT !.sent = @ + 1]

\* asyncOperation(executor): an executor that throws fails the promise.
asyncOperation(w, i) ==
    IF w.threw # Undefined
    THEN [reject(w, i, w.threw) EXCEPT !.threw = Undefined]
    ELSE w

\* The executor shared by the four accessors: this.rejected = reject; this.onReply(listener)
\* An accessor that fails at once when the handle was disconnected before.
accessorBody_failsAfterDisconnect(w, kind, type, schema) ==
    LET i == Len(w.acc) + 1
        w1 == [w EXCEPT !.acc = Append(@,
                  [kind |-> kind, type |-> type, schema |-> schema,
                   state |-> "pending", value |-> Undefined, settles |-> 0])]
        w2 == [w1 EXCEPT !.rejected = RejectOf(i)]
    IN  IF w.onReplyCallback = noop
        THEN invokeRejected(w2, RejectOf(i), ConnectionClosed)
        ELSE asyncOperation(onReplyBody(w2, AccListener(i)), i)

\* An accessor that keeps the rejection callback of an accessor still registered.
accessorBody_keepsOlderRejected(w, kind, type, schema) ==
    LET i == Len(w.acc) + 1
        w1 == [w EXCEPT !.acc = Append(@,
                  [kind |-> kind, type |-> type, schema |-> schema,
                   state |-> "pending", value |-> Undefined, settles |-> 0])]
        w2 == IF w.rejected = Undefined THEN [w1 EXCEPT !.rejected = RejectOf(i)] ELSE w1
    IN  asyncOperation(onReplyBody(w2, AccListener(i)), i)

accessorBody(w, kind, type, schema) ==
    LET i == Len(w.acc) + 1
        w1 == [w EXCEPT !.acc = Append(@,
                  [kind |-> kind, type |-> type, schema |-> schema,
                   state |-> "pending", value |-> Undefined, settles |-> 0])]
        w2 == [w1 EXCEPT !.rejected = RejectOf(i)]
    IN  asyncOperation(onReplyBody(w2, AccListener(i)), i)

\* ---------------------------------------------------------------- actions
Commit(op, arg, w, h) ==
    /\ uncatchedNext' = w.uncatchedNext
    /\ onReplyCallback' = w.onReplyCallback
    /\ rejected' = w.rejected
    /\ released' = w.released
    /\ acc' = w.acc
    /\ hist' = [h EXCEPT !.ops = @ + 1]
    /\ lastCall' = [op |-> op, arg |-> arg, calls |-> w.calls, rejs |-> w.rejs,
                    rel |-> w.rel, sent |-> w.sent, threw |-> w.threw, pre |-> Pre]

CanCall == hist.ops < MaxOps
CanAwait == CanCall /\ Len(acc) < MaxAcc

send ==
    /\ CanCall
    /\ Commit("send", Undefined, sendBody(World), hist)

next ==
    /\ CanCall
    /\ \E m \in Messages :
         Commit("next", m, nextBody(World, m), [hist EXCEPT !.nexts = @ + 1])

onReply ==
    /\ CanCall
    /\ \E f \in UserListeners :
         Commit("onReply", UserListener(f), onReplyBody(World, UserListener(f)),
                [hist EXCEPT !.installs = @ + 1])

onRejected ==
    /\ CanCall
    /\ \E r \in UserRejections :
         Commit("onRejected", UserRejection(r), onRejectedBody(World, UserRejection(r)),
                [hist EXCEPT !.regs = @ + 1])

disconnect ==
    /\ CanCall
    /\ \E error \in DisconnectArgs :
         Commit("disconnect", error, disconnectBody(World, error),
                [hist EXCEPT !.discs = @ + 1])

AccHist == [hist EXCEPT !.installs = @ + 1, !.accs = @ + 1]

ackThenClose ==
    /\ CanAwait
    /\ Commit("ackThenClose", Undefined,
              accessorBody(World, "ackThenClose", RpcTypesAck, FALSE), AccHist)

waitNextMessage ==
    /\ CanAwait
    /\ Commit("waitNextMessage", Undefined,
              accessorBody(World, "waitNextMessage", "any", FALSE), AccHist)

waitNext ==
    /\ CanAwait
    /\ \E type \in WaitTypes, schema \in BOOLEAN :
         Commit("waitNext", [type |-> type, schema |-> schema],
                accessorBody(World, "waitNext", type, schema), AccHist)

firstThenClose ==
    /\ CanAwait
    /\ \E type \in WaitTypes, schema \in BOOLEAN :
         Commit("firstThenClose", [type |-> type, schema |-> schema],
                accessorBody(World, "firstThenClose", type, schema), AccHist)

Next ==
    \/ send
    \/ next
    \/ onReply
    \/ onRejected
    \/ disconnect
    \/ ackThenClose
    \/ waitNextMessage
    \/ waitNext
    \/ firstThenClose

Spec == Init /\ [][Next]_vars

\* ------------------------------------------------------ reading a call
AccessorOps == {"ackThenClose", "waitNextMessage", "waitNext", "firstThenClose"}
InstallOps == AccessorOps \cup {"onReply"}

\* The listener the last call installed (onReply or an accessor).
Installed == IF lastCall.op = "onReply" THEN lastCall.arg ELSE AccListener(Len(acc))

\* The last call ran the listener of accessor call i (on a delivery or a replay).
RanListenerOf(i) ==
    /\ lastCall.calls # <<>>
    /\ lastCall.calls[1].l = AccListener(i)

\* The reply the last call handed to the listener it ran.
Handed == lastCall.calls[1].m

\* ---------------------------------------------------------------- claims
\* C1: whatever sequence of send, next, onReply, onRejected, disconnect and
\* accessor calls is made on one handle, release has been invoked at most once.
C1_ReleaseAtMostOnce == released <= 1

\* C2: when exactly one accessor was awaited on the handle (no onReply or
\* onRejected call of the user, at most one disconnect) and it has settled,
\* release has been invoked exactly once, unless the outcome is waitNextMessage
\* resolving or a plain type mismatch in waitNext or firstThenClose.
C2_Terminal ==
    \/ acc[1].state = "resolved"
    \/ /\ acc[1].state = "rejected"
       /\ acc[1].value.k \in {"carried", "RpcError", "CustomError"}

C2_NoRelease ==
    \/ acc[1].kind = "waitNextMessage" /\ acc[1].state = "resolved"
    \/ /\ acc[1].kind \in {"waitNext", "firstThenClose"}
       /\ acc[1].state = "rejected"
       /\ acc[1].value.k = "UnexpectedMessageType"

C2_ExactlyOnceRelease ==
    ( /\ hist.accs = 1
      /\ hist.installs = 1
      /\ hist.regs = 0
      /\ hist.discs <= 1
      /\ C2_Terminal
      /\ ~C2_NoRelease )
    => released = 1

\* C3: when exactly one reply was delivered before any listener was installed
\* (and no disconnect happened), the first onReply or accessor call hands that
\* reply to the listener it installs exactly once, within the call, and leaves
\* the buffer empty; waitNextMessage is resolved with the reply in that call.
C3_BufferThenReplay ==
    ( /\ lastCall.op \in InstallOps
      /\ lastCall.pre.hist.installs = 0
      /\ lastCall.pre.hist.nexts = 1
      /\ lastCall.pre.hist.discs = 0 )
    => /\ lastCall.calls = <<[l |-> Installed, m |-> lastCall.pre.uncatchedNext]>>
       /\ uncatchedNext = Undefined
       /\ lastCall.op = "waitNextMessage"
            => /\ acc[Len(acc)].state = "resolved"
               /\ acc[Len(acc)].value = lastCall.pre.uncatchedNext

\* C4: disconnect(error?) invokes the registered rejection callback exactly once,
\* with the error or with 'Connection closed' when none is given, clears it, sets
\* the no-op listener and invokes release exactly once in the call; without a
\* rejection callback it still sets the no-op listener and releases.  A pending
\* accessor whose reject is registered fails with that error.
DisconnectError == IF lastCall.arg # Undefined THEN lastCall.arg ELSE ConnectionClosed

C4_Disconnect ==
    lastCall.op = "disconnect" =>
       /\ lastCall.pre.rejected # Undefined
            => lastCall.rejs = <<[cb |-> lastCall.pre.rejected, err |-> DisconnectError]>>
       /\ lastCall.pre.rejected = Undefined => lastCall.rejs = <<>>
       /\ lastCall.calls = <<>>
       /\ rejected = Undefined
       /\ onReplyCallback = noop
       /\ lastCall.rel = 1
       /\ released = lastCall.pre.released + 1
       /\ \A i \in 1..Len(acc) :
            (lastCall.pre.rejected = RejectOf(i) /\ lastCall.pre.acc[i].state = "pending")
            => /\ acc[i].state = "rejected"
               /\ acc[i].value = DisconnectError
               /\ acc[i].settles = lastCall.pre.acc[i].settles + 1

\* firstThenClose, then disconnect(customError) before any deliver: the result
\* fails with customError and release has been invoked exactly once.
C4_Witness ==
    /\ lastCall.op = "disconnect"
    /\ lastCall.arg = CustomError
    /\ hist.ops = 2
    /\ Len(acc) = 1
    /\ acc[1].kind = "firstThenClose"
    /\ acc[1].state = "rejected"
    /\ acc[1].value = CustomError
    /\ lastCall.rejs = <<[cb |-> RejectOf(1), err |-> CustomError]>>
    /\ released = 1

\* C5: once disconnect has been invoked, every later next(m), whatever was
\* called in between, invokes no user or accessor listener, settles no accessor
\* and leaves the buffer, the rejection callback and the release count unchanged.
C5_PermanentNoop ==
    (lastCall.op = "next" /\ lastCall.pre.hist.discs >= 1)
    => /\ lastCall.calls = <<[l |-> noop, m |-> lastCall.arg]>>
       /\ acc = lastCall.pre.acc
       /\ uncatchedNext = lastCall.pre.uncatchedNext
       /\ rejected = lastCall.pre.rejected
       /\ released = lastCall.pre.released

\* C6: once an accessor has settled because of a delivered reply the listener is
\* the default buffering listener again, and a further next(m) on that listener
\* does not throw, settles nothing, does not release and stores m in the buffer
\* slot; after disconnect the listener is the no-op, and a further next(m) on it
\* is discarded and leaves the buffer as it was.
SettledByReply ==
    /\ lastCall.op \in AccessorOps \cup {"next"}
    /\ \E i \in 1..Len(acc) : RanListenerOf(i) /\ acc[i].state # "pending"

C6_PostTerminal ==
    [][ /\ SettledByReply' => onReplyCallback' = catchOnReplyCallback
        /\ lastCall'.op = "disconnect" => onReplyCallback' = noop
        /\ (onReplyCallback = catchOnReplyCallback /\ lastCall'.op = "next")
             => /\ lastCall'.threw = Undefined
                /\ lastCall'.calls = <<[l |-> catchOnReplyCallback, m |-> lastCall'.arg]>>
                /\ lastCall'.rejs = <<>>
                /\ lastCall'.rel = 0
                /\ released' = released
                /\ acc' = acc
                /\ uncatchedNext' = lastCall'.arg
        /\ (onReplyCallback = noop /\ lastCall'.op = "next")
             => /\ lastCall'.threw = Undefined
                /\ lastCall'.calls = <<[l |-> noop, m |-> lastCall'.arg]>>
                /\ lastCall'.rejs = <<>>
                /\ released' = released
                /\ acc' = acc
                /\ uncatchedNext' = uncatchedNext
      ]_vars

\* An accessor was settled by a delivered reply, and the next reply was buffered.
C6_Witness ==
    /\ lastCall.op = "next"
    /\ hist.discs = 0
    /\ hist.nexts = 2
    /\ Len(lastCall.pre.acc) = 1
    /\ lastCall.pre.acc[1].state # "pending"
    /\ lastCall.pre.acc[1].settles = 1
    /\ lastCall.pre.uncatchedNext = Undefined
    /\ uncatchedNext = lastCall.arg
    /\ acc = lastCall.pre.acc

\* C7: the resolve and reject of one accessor invocation are invoked at most once
\* together, whatever is called on the handle afterwards.
C7_SingleSettle == \A i \in 1..Len(acc) : acc[i].settles <= 1

\* C8: waitNext(T) resolves only on a reply of type T; on a reply that is not
\* error-tagged and has another type it fails with UnexpectedMessageType(T, the
\* received type) and release is not invoked.
C8_WaitNextTypeMatch ==
    \A i \in 1..Len(acc) :
       acc[i].kind = "waitNext" =>
          /\ ( /\ acc[i].state = "resolved"
               /\ (i > Len(lastCall.pre.acc) \/ lastCall.pre.acc[i].state = "pending") )
             => (RanListenerOf(i) /\ Handed.type = acc[i].type)
          /\ (RanListenerOf(i) /\ Handed.type # acc[i].type /\ ~isError(Handed))
             => /\ acc[i].state = "rejected"
                /\ acc[i].value = UnexpectedMessageType(acc[i].type, Handed.type)
                /\ lastCall.rel = 0
                /\ released = lastCall.pre.released

\* waitNext("A"), then a reply of type "B": unexpected type, nothing released.
C8_Witness ==
    /\ lastCall.op = "next"
    /\ lastCall.arg.type = "B"
    /\ Len(acc) = 1
    /\ acc[1].kind = "waitNext"
    /\ acc[1].type = "A"
    /\ RanListenerOf(1)
    /\ acc[1].state = "rejected"
    /\ acc[1].value = UnexpectedMessageType("A", "B")
    /\ released = 0

\* C9: firstThenClose(T), handed a reply that is not error-tagged and has another
\* type, fails with UnexpectedMessageType and release is not invoked by that
\* delivery.
FirstThenCloseMismatch(i) ==
    /\ acc[i].kind = "firstThenClose"
    /\ RanListenerOf(i)
    /\ Handed.type # acc[i].type
    /\ ~isError(Handed)

C9_MismatchNoRelease ==
    \A i \in 1..Len(acc) :
       FirstThenCloseMismatch(i)
       => /\ acc[i].state = "rejected"
          /\ acc[i].value = UnexpectedMessageType(acc[i].type, Handed.type)
          /\ lastCall.rel = 0

\* C9, amended: firstThenClose(T), handed a reply that is not error-tagged and has
\* another type, fails with UnexpectedMessageType and release is invoked exactly
\* once by that delivery.
C9_MismatchReleases ==
    \A i \in 1..Len(acc) :
       FirstThenCloseMismatch(i)
       => /\ acc[i].state = "rejected"
          /\ acc[i].value = UnexpectedMessageType(acc[i].type, Handed.type)
          /\ lastCall.rel = 1
          /\ released = lastCall.pre.released + 1

C9_Witness ==
    /\ lastCall.op = "next"
    /\ Len(acc) = 1
    /\ FirstThenCloseMismatch(1)
    /\ acc[1].state = "rejected"
    /\ released = 1

\* C10: an error-tagged reply handed to the listener of any of the four accessors
\* triggers release, and the accessor fails with the carried error.
C10_ErrorReplyTerminal ==
    \A i \in 1..Len(acc) :
       (RanListenerOf(i) /\ isError(Handed))
       => /\ lastCall.rel >= 1
          /\ acc[i].state = "rejected"
          /\ acc[i].value = getError(Handed)

\* C10, amended: an error-tagged reply handed to the listener of ackThenClose, or
\* of waitNext(T) or firstThenClose(T) with T not the error type, triggers release
\* and the accessor fails with the carried error; waitNextMessage resolves with
\* the error-tagged reply itself and does not release.
C10_ErrorReplyTerminalButWaitNextMessage ==
    \A i \in 1..Len(acc) :
       (RanListenerOf(i) /\ isError(Handed))
       => /\ (acc[i].kind # "waitNextMessage" /\ acc[i].type # Handed.type)
             => /\ lastCall.rel >= 1
                /\ released >= lastCall.pre.released + 1
                /\ acc[i].state = "rejected"
                /\ acc[i].value = getError(Handed)
          /\ acc[i].kind = "waitNextMessage"
             => /\ lastCall.rel = 0
                /\ acc[i].state = "resolved"
                /\ acc[i].value = Handed

C10_Witness ==
    /\ lastCall.op = "next"
    /\ isError(lastCall.arg)
    /\ Len(acc) = 1
    /\ acc[1].kind = "ackThenClose"
    /\ RanListenerOf(1)
    /\ acc[1].state = "rejected"
    /\ acc[1].value = getError(lastCall.arg)
    /\ released = 1

\* C11: ackThenClose is terminal on the first reply handed to its listener,
\* whatever its type: that call invokes release exactly once, clears the rejection
\* callback and restores the buffering listener; the result resolves with no value
\* iff the reply is the Ack, fails with the carried error if it is error-tagged
\* and with UnexpectedMessageType otherwise.
C11_AckThenClose ==
    \A i \in 1..Len(acc) :
       (acc[i].kind = "ackThenClose" /\ RanListenerOf(i))
       => /\ lastCall.rel = 1
          /\ released = lastCall.pre.released + 1
          /\ rejected = Undefined
          /\ onReplyCallback = catchOnReplyCallback
          /\ acc[i].settles = 1
          /\ (acc[i].state = "resolved") <=> (Handed.type = RpcTypesAck)
          /\ acc[i].state = "resolved" => acc[i].value = Undefined
          /\ isError(Handed)
               => (acc[i].state = "rejected" /\ acc[i].value = getError(Handed))
          /\ (Handed.type # RpcTypesAck /\ ~isError(Handed))
               => /\ acc[i].state = "rejected"
                  /\ acc[i].value = UnexpectedMessageType(RpcTypesAck, Handed.type)

\* send, ackThenClose, next(Ack): resolved with no value, released exactly once.
C11_Witness ==
    /\ lastCall.op = "next"
    /\ lastCall.arg.type = RpcTypesAck
    /\ hist.ops = 3
    /\ Len(acc) = 1
    /\ acc[1].kind = "ackThenClose"
    /\ RanListenerOf(1)
    /\ acc[1].state = "resolved"
    /\ acc[1].value = Undefined
    /\ released = 1

\* C12: exactly one reply listener is installed at any instant: onReply(g) leaves g
\* installed in place of whatever was there, an accessor leaves its own listener
\* (or, after a replay, the buffering one), and next(m) runs the installed listener,
\* once, and no other.
C12_ListenerReplacement ==
    /\ lastCall.op = "onReply" => onReplyCallback = lastCall.arg
    /\ lastCall.op \in AccessorOps
         => onReplyCallback \in {AccListener(Len(acc)), catchOnReplyCallback}
    /\ lastCall.op \in InstallOps
         => \A c \in 1..Len(lastCall.calls) : lastCall.calls[c].l = Installed
    /\ lastCall.op = "next"
         => lastCall.calls = <<[l |-> lastCall.pre.onReplyCallback, m |-> lastCall.arg]>>

\* An accessor, then onReply(g), then a reply: it reaches g; the accessor's
\* listener is not run and the accessor stays pending.
C12_Witness ==
    /\ lastCall.op = "next"
    /\ hist.ops = 3
    /\ hist.accs = 1
    /\ hist.installs = 2
    /\ lastCall.pre.onReplyCallback = UserListener("g")
    /\ lastCall.calls = <<[l |-> UserListener("g"), m |-> lastCall.arg]>>
    /\ acc[1].state = "pending"
    /\ acc[1].settles = 0

\* C13: firstThenClose(T, schema), handed a reply of type T: when parsing the body
\* fails the accessor fails with the parse error, when it succeeds the accessor
\* resolves with the parsed body (the raw message without a schema); either way
\* release is invoked exactly once by that call and nothing is thrown.
C13_FirstThenCloseParse ==
    \A i \in 1..Len(acc) :
       (acc[i].kind = "firstThenClose" /\ RanListenerOf(i) /\ Handed.type = acc[i].type)
       => /\ lastCall.rel = 1
          /\ released = lastCall.pre.released + 1
          /\ lastCall.threw = Undefined
          /\ acc[i].settles = 1
          /\ (acc[i].schema /\ ~parseOk(Handed))
               => (acc[i].state = "rejected" /\ acc[i].value = ParseError(Handed))
          /\ (acc[i].schema /\ parseOk(Handed))
               => (acc[i].state = "resolved" /\ acc[i].value = parseBody(Handed))
          /\ ~acc[i].schema
               => (acc[i].state = "resolved" /\ acc[i].value = Handed)

C13_Witness ==
    /\ lastCall.op = "next"
    /\ Len(acc) = 1
    /\ acc[1].kind = "firstThenClose"
    /\ acc[1].schema
    /\ RanListenerOf(1)
    /\ Handed.type = acc[1].type
    /\ ~parseOk(Handed)
    /\ acc[1].state = "rejected"
    /\ acc[1].value = ParseError(Handed)
    /\ released = 1

\* C14: waitNext(T, schema), handed a reply of type T whose body does not parse
\* (on a delivery or on the replay of a buffered reply): the result fails with the
\* parse error in that call, nothing is thrown into the caller of next, and the
\* buffer is empty afterwards.
C14_WaitNextParseFailure ==
    \A i \in 1..Len(acc) :
       ( /\ acc[i].kind = "waitNext"
         /\ acc[i].schema
         /\ RanListenerOf(i)
         /\ Handed.type = acc[i].type
         /\ ~parseOk(Handed) )
       => /\ acc[i].state = "rejected"
          /\ acc[i].value = ParseError(Handed)
          /\ lastCall.threw = Undefined
          /\ uncatchedNext = Undefined

\* C16: the buffer is one slot: a next(m) on the buffering listener stores m in
\* place of whatever was buffered, and the next listener installed is handed the
\* buffered reply, the most recent one, once, and no earlier reply.
C16_SingleSlot ==
    /\ (lastCall.op = "next" /\ lastCall.pre.onReplyCallback = catchOnReplyCallback)
         => uncatchedNext = lastCall.arg
    /\ (lastCall.op \in InstallOps /\ lastCall.pre.uncatchedNext # Undefined)
         => lastCall.calls = <<[l |-> Installed, m |-> lastCall.pre.uncatchedNext]>>
    /\ (lastCall.op \in InstallOps /\ lastCall.pre.uncatchedNext = Undefined)
         => lastCall.calls = <<>>

\* A second reply replaced a different buffered one.
C16_Witness ==
    /\ lastCall.op = "next"
    /\ lastCall.pre.onReplyCallback = catchOnReplyCallback
    /\ lastCall.pre.uncatchedNext # Undefined
    /\ lastCall.pre.uncatchedNext # lastCall.arg
    /\ uncatchedNext = lastCall.arg

\* C17: a disconnect with no rejection callback registered invokes none and keeps
\* its error nowhere; an accessor started after a disconnect is not failed by it:
\* no rejection callback runs in the accessor call, and unless a buffered reply is
\* replayed to it the accessor is pending with its listener and reject installed.
C17_RejectionNotBuffered ==
    /\ (lastCall.op = "disconnect" /\ lastCall.pre.rejected = Undefined)
         => /\ lastCall.rejs = <<>>
            /\ acc = lastCall.pre.acc
            /\ uncatchedNext = lastCall.pre.uncatchedNext
            /\ rejected = Undefined
    /\ (lastCall.op \in AccessorOps /\ lastCall.pre.hist.discs >= 1)
         => /\ lastCall.rejs = <<>>
            /\ lastCall.pre.uncatchedNext = Undefined
                 => /\ acc[Len(acc)].state = "pending"
                    /\ acc[Len(acc)].settles = 0
                    /\ onReplyCallback = AccListener(Len(acc))
                    /\ rejected = RejectOf(Len(acc))

\* disconnect(customError), then waitNextMessage(): pending.
C17_Witness ==
    /\ lastCall.op = "waitNextMessage"
    /\ hist.ops = 2
    /\ hist.discs = 1
    /\ lastCall.pre.onReplyCallback = noop
    /\ acc[1].state = "pending"
    /\ released = 1

\* C18: after a disconnect, and as long as only send, next and disconnect are
\* called, the listener is noop and no rejection callback is registered, and a
\* further disconnect invokes neither a rejection callback nor a reply listener
\* and leaves the listener, the buffer, the rejection callback and the accessors'
\* results as they were.
Disconnected == onReplyCallback = noop /\ rejected = Undefined

C18_DisconnectIdempotent ==
    [][ /\ lastCall'.op = "disconnect" => Disconnected'
        /\ (Disconnected /\ lastCall'.op \in {"send", "next", "disconnect"})
             => /\ Disconnected'
                /\ lastCall'.rejs = <<>>
                /\ \A c \in 1..Len(lastCall'.calls) : lastCall'.calls[c].l = noop
                /\ lastCall'.op = "disconnect" => lastCall'.calls = <<>>
                /\ uncatchedNext' = uncatchedNext
                /\ acc' = acc
      ]_vars

\* An accessor, then two disconnects: its reject ran in the first one only.
C18_Witness ==
    /\ lastCall.op = "disconnect"
    /\ hist.ops = 3
    /\ hist.accs = 1
    /\ hist.discs = 2
    /\ lastCall.rejs = <<>>
    /\ acc[1].state = "rejected"
    /\ acc[1].settles = 1
    /\ onReplyCallback = noop

\* C19: for each accessor and each reply m whose body parses, next(m) then the
\* accessor, and the accessor then next(m), leave a fresh handle in the same
\* state: same settlement, release count, listener, rejection callback, and an
\* empty buffer.
Fresh ==
    [uncatchedNext |-> Undefined, onReplyCallback |-> catchOnReplyCallback,
     rejected |-> Undefined, released |-> 0, acc |-> <<>>,
     calls |-> <<>>, rejs |-> <<>>, rel |-> 0, sent |-> 0, threw |-> Undefined]

Handle(w) ==
    [uncatchedNext |-> w.uncatchedNext, onReplyCallback |-> w.onReplyCallback,
     rejected |-> w.rejected, released |-> w.released, acc |-> w.acc]

ReplyFirst(kind, type, schema, m) == accessorBody(nextBody(Fresh, m), kind, type, schema)
AccessorFirst(kind, type, schema, m) == nextBody(accessorBody(Fresh, kind, type, schema), m)

C19_ArrivalOrder ==
    (hist.ops = 2 /\ hist.accs = 1 /\ hist.nexts = 1)
    => /\ (lastCall.op = "next" /\ parseOk(lastCall.arg))
            => /\ Handle(World) =
                    Handle(ReplyFirst(acc[1].kind, acc[1].type, acc[1].schema, lastCall.arg))
               /\ uncatchedNext = Undefined
       /\ (lastCall.op \in AccessorOps /\ parseOk(lastCall.pre.uncatchedNext))
            => /\ Handle(World) =
                    Handle(AccessorFirst(acc[1].kind, acc[1].type, acc[1].schema,
                                         lastCall.pre.uncatchedNext))
               /\ uncatchedNext = Undefined

\* firstThenClose, then its reply: settled and released as in the other order.
C19_Witness ==
    /\ hist.ops = 2
    /\ lastCall.op = "next"
    /\ parseOk(lastCall.arg)
    /\ Len(acc) = 1
    /\ acc[1].kind = "firstThenClose"
    /\ acc[1].state = "resolved"
    /\ released = 1
    /\ uncatchedNext = Undefined

\* C20: an accessor that is pending when a later accessor is invoked is never
\* settled: neither that invocation nor any later call invokes its resolve or
\* reject; a call settles at most the accessor started last.
C20_SupersededNeverSettled ==
    [][ \A i \in 1..Len(acc) :
           (i < Len(acc') /\ acc[i].state = "pending") => acc'[i] = acc[i]
      ]_vars

\* Two accessors; a reply settled the second, the first is still pending.
C20_Witness ==
    /\ lastCall.op \in {"next", "disconnect"}
    /\ Len(acc) = 2
    /\ lastCall.pre.acc[2].state = "pending"
    /\ acc[2].state # "pending"
    /\ acc[1].state = "pending"
    /\ acc[1].settles = 0

\* ------------------------------------------- the dispatcher, with fairness
\* Accessor call i is awaited: pending, with its listener and its reject in place.
Awaited(i) ==
    /\ i <= Len(acc)
    /\ acc[i].state = "pending"
    /\ onReplyCallback = AccListener(i)
    /\ rejected = RejectOf(i)

Awaiting == \E i \in 1..Len(acc) : Awaited(i)

\* While an accessor is awaited the caller is suspended in it, and the dispatcher
\* delivers a reply whose body parses, or disconnects.
deliver ==
    /\ Awaiting
    /\ \E m \in {x \in Messages : parseOk(x)} :
         Commit("next", m, nextBody(World, m), [hist EXCEPT !.nexts = @ + 1])

drop ==
    /\ Awaiting
    /\ \E error \in DisconnectArgs :
         Commit("disconnect", error, disconnectBody(World, error),
                [hist EXCEPT !.discs = @ + 1])

\* The calls made while no accessor is awaited; one call fewer than MaxOps, the
\* dispatcher's answer to the accessor awaited last being the one more.
idle == ~Awaiting /\ hist.ops < MaxOps - 1 /\ Next

LiveNext ==
    \/ deliver
    \/ drop
    \/ idle

LiveSpec == Init /\ [][LiveNext]_vars /\ WF_vars(deliver \/ drop)

\* C15: while an accessor is awaited (no other accessor, onReply or onRejected
\* call since it was started) the first next(m) whose body parses, or the first
\* disconnect, settles it in that step; with a dispatcher that eventually
\* delivers or disconnects, an awaited accessor does not stay pending forever.
ParsesFor(i, m) ==
    ~(acc[i].kind = "waitNext" /\ acc[i].schema /\ m.type = acc[i].type /\ ~parseOk(m))

C15_SettledInStep ==
    \A i \in 1..Len(acc) :
       ( /\ Awaited(i)
         /\ lastCall'.op \in {"next", "disconnect"}
         /\ lastCall'.op = "next" => ParsesFor(i, lastCall'.arg) )
       => /\ acc'[i].state # "pending"
          /\ acc'[i].settles = 1

Settled(i) == i <= Len(acc) /\ acc[i].state # "pending"

C15_AwaitedIsSettled ==
    /\ [][C15_SettledInStep]_vars
    /\ \A i \in 1..(MaxAcc + 1) : Awaited(i) ~> Settled(i)

\* An awaited accessor was failed by a disconnect.
C15_Witness ==
    /\ lastCall.op = "disconnect"
    /\ Len(acc) >= 1
    /\ lastCall.pre.acc[Len(acc)].state = "pending"
    /\ lastCall.pre.rejected = RejectOf(Len(acc))
    /\ lastCall.pre.onReplyCallback = AccListener(Len(acc))
    /\ acc[Len(acc)].state = "rejected"
    /\ acc[Len(acc)].value = DisconnectError

====
